---- MODULE Spec2Model ----
(***************************************************************************)
(* Model of the cognito-flask-infrastructure CDK application.              *)
(*                                                                         *)
(*   SpecSynth    synthesis of the stacks (InfrastructureStack and the     *)
(*                three stacks it instantiates): outputs, environment,     *)
(*                declared dependencies, data-flow references.             *)
(*   Spec         `cdk deploy --all` followed by `cdk destroy --all` over  *)
(*                the declared dependency edges, with the ECR repository.  *)
(*   SpecRegistry the ECR repository under its two lifecycle rules.        *)
(*   SpecScaling  the service's scalable target and its two policies.      *)
(*   SpecHealth   target-group health checks and the service scheduler's   *)
(*                grace period.                                            *)
(*   SpecSizing   synthesis of EcsStack over caller-supplied sizing props. *)
(*   SpecDeploy   one `cdk deploy --all` run under fair scheduling.        *)
(*   SpecScripts  the shell scripts, step by step under `set -e`.          *)
(*   SpecSetup    the GitHub Actions IAM setup script, run and run again.  *)
(***************************************************************************)
EXTENDS Integers, Sequences, FiniteSets, TLC

VARIABLES
    cloud,      \* identifiers the platform generates at deployment
    stackProps, \* props handed to the stack constructor being synthesized
    plan,       \* the synthesized application, or NoPlan
    phase,      \* "deploy" | "destroy": the provisioning engine's current run
    status,     \* per stack: absent, applying, applied, failed, destroying, destroyed, destroyFailed
    purged,     \* images removed by the repository's empty-on-delete
    created,    \* per stack: the resources of the stack that exist
    rolledBack, \* per stack: resources deleted by the rollback of a failed apply
    images,     \* the repository contents, in push order
    lastCleanup,\* the contents the last cleanup cycle ran on, if it was the last operation
    taskCount,  \* the service's task count (the scalable dimension)
    utilization,\* last load signal per scaling policy
    cooldown,   \* per scaling policy: seconds of cooldown left
    tasks,      \* per task slot: lifecycle, age, target health, streaks
    script,     \* the shell script being run, or "none"
    pc,         \* the step of the script to run next
    exitStatus, \* the script's exit status once it has ended
    log,        \* the commands the script has run, with their exit statuses
    banner,     \* whether the completion banner has been printed
    answers,    \* the shell variables assigned by `read`
    iam,        \* the account's IAM state the setup script works on
    files,      \* the temporary files of the setup script that exist
    runs,       \* how many times the script has been started
    faulted,    \* whether a command of this run failed though the account state allowed it to succeed
    previous    \* answers and IAM state at the end of the preceding run, if it completed

vars == <<cloud, stackProps, plan, phase, status, purged, created, rolledBack,
          images, lastCleanup,
          taskCount, utilization, cooldown, tasks,
          script, pc, exitStatus, log, banner, answers,
          iam, files, runs, faulted, previous>>

synthVars    == <<cloud, stackProps, plan>>
deployVars   == <<phase, status, purged, created, rolledBack>>
registryVars == <<images, lastCleanup>>
scalingVars  == <<taskCount, utilization, cooldown>>
healthVars   == <<tasks>>
scriptVars   == <<script, pc, exitStatus, log, banner, answers>>
accountVars  == <<iam, files, runs, faulted, previous>>

Min(a, b) == IF a < b THEN a ELSE b
Max(a, b) == IF a > b THEN a ELSE b

(***************************************************************************)
(* Synthesis                                                               *)
(***************************************************************************)

Infra   == "InfrastructureStack"
Cognito == "CognitoStack"
Ecr     == "EcrStack"
Ecs     == "EcsStack"
Stacks  == {Infra, Cognito, Ecr, Ecs}

\* A value in a template is a sequence of parts.  A part is a literal or a
\* token: a value resolved at deployment, owned by the stack producing it.
Lit(s)        == [owner |-> "", val |-> s]
Tok(owner, v) == [owner |-> owner, val |-> v]

\* An optional numeric prop: <<>> is undefined, <<n>> is n.
Undefined == <<>>
Some(n)   == <<n>>

\* `x || d` on an optional number: undefined and 0 are falsy.
OrDefault(opt, d) == IF opt = Undefined \/ opt[1] = 0 THEN d ELSE opt[1]

\* `x || d` on an optional string: undefined and "" are falsy.
OrDefaultStr(opt, d) == IF opt = Undefined \/ opt[1] = "" THEN d ELSE opt[1]

PoolIds   == {"pool-1", "pool-2"}
ClientIds == {"client-1", "client-2"}
Secrets   == {"secret-1", "secret-2"}
DnsNames  == {"alb-1.elb.amazonaws.com", "alb-2.elb.amazonaws.com"}
Regions   == {"us-east-1", "us-east-2"}

\* What the platform resolves at deployment: the region deployed into and the
\* identifiers and the client secret it generates.
Clouds == [region : Regions, userPoolId : PoolIds, clientId : ClientIds,
           clientSecret : Secrets, dnsName : DnsNames]

\* cdk.StackProps handed to the top-level stack: absent, or naming an env.
StackPropsSet == {Undefined} \cup {Some([region |-> r]) : r \in Regions}

\* The stacks an output or configuration value refers to.
Owners(value) == {value[i].owner : i \in DOMAIN value}

\* All values of a function name -> value.
Values(f) == {f[k] : k \in DOMAIN f}

\* Whether string s is a part of some value of f.
Appears(s, f) == \E v \in Values(f) : \E i \in DOMAIN v : v[i].val = s

\* A resource of a stack, with what the engine does when it removes the
\* resource from the stack: "destroy" deletes it, "retain" leaves it behind.
Resource(id, removalPolicy) == [id |-> id, removalPolicy |-> removalPolicy]

UserPoolRemovalPolicyRetain == "retain"
UserPoolRemovalPolicy       == "destroy"

CognitoStack(props, c) ==
    LET userPoolId       == Tok(Cognito, c.userPoolId)
        userPoolClientId == Tok(Cognito, c.clientId)
        userPoolArn      == Tok(Cognito, "arn:" \o c.userPoolId)
    IN [ userPoolName     |-> OrDefaultStr(props.userPoolName, "flask-auth-pool"),
         appClientName    |-> OrDefaultStr(props.appClientName, "flask-auth-client"),
         generateSecret   |-> TRUE,
         clientSecret     |-> c.clientSecret,
         userPoolId       |-> userPoolId,
         userPoolClientId |-> userPoolClientId,
         resources |-> << Resource("FlaskAuthUserPool", UserPoolRemovalPolicy),
                          Resource("FlaskAuthUserPoolClient", "destroy") >>,
         outputs |->
           [ UserPoolId       |-> <<userPoolId>>,
             UserPoolArn      |-> <<userPoolArn>>,
             UserPoolClientId |-> <<userPoolClientId>>,
             GetClientSecretCommand |->
               << Lit("aws cognito-idp describe-user-pool-client --user-pool-id "),
                  userPoolId, Lit(" --client-id "), userPoolClientId,
                  Lit(" --query 'UserPoolClient.ClientSecret' --output text") >> ] ]

\* Program constants of the registry and the service, used by the stacks
\* below and by the runtime models further down.
MaxImageCount           == 10
MaxImageAgeDays         == 1
EmptyOnDeleteOmitted    == FALSE
EmptyOnDelete           == TRUE
DefaultContainerPort    == 8000
DefaultCpu              == 512
DefaultMemoryLimitMiB   == 1024
DesiredCount            == 1
ListenerPortOfContainer == DefaultContainerPort
ListenerPort            == 80
HealthCheckGracePeriod  == 60
HealthCheckInterval     == 30
HealthCheckTimeout      == 5
HealthyThresholdCount   == 2
UnhealthyThresholdCount == 3
MinCapacity             == 1
MaxCapacity             == 10
CpuTargetPercent        == 70
MemoryTargetPercent     == 80
ScaleCooldown           == 60

\* The repository's lifecycle rules as declared.  A rule that names no tag
\* status applies to any image.
RepositoryLifecycleRulesNoAgeRule ==
    << [tagStatus |-> "any", maxImageCount |-> MaxImageCount] >>

RepositoryLifecycleRules ==
    << [tagStatus |-> "any", maxImageCount |-> MaxImageCount],
       [tagStatus |-> "untagged", maxImageAgeDays |-> MaxImageAgeDays] >>

EcrStack(props, c) ==
    LET repositoryName == OrDefaultStr(props.repositoryName, "flask-auth-app")
        repositoryUri  == Tok(Ecr, "uri:" \o repositoryName)
        repositoryArn  == Tok(Ecr, "arn:" \o repositoryName)
        name           == Tok(Ecr, repositoryName)
    IN [ repository |->
           [ repositoryName  |-> repositoryName,
             repositoryUri   |-> repositoryUri,
             repositoryArn   |-> repositoryArn,
             imageScanOnPush |-> TRUE,
             mutableTags     |-> TRUE,
             lifecycleRules  |-> RepositoryLifecycleRules,
             emptyOnDelete   |-> EmptyOnDelete ],
         resources |-> << Resource("FlaskAuthRepository", "destroy") >>,
         outputs |->
           [ RepositoryUri  |-> <<repositoryUri>>,
             RepositoryArn  |-> <<repositoryArn>>,
             RepositoryName |-> <<name>>,
             DockerLoginCommand |->
               << Lit("aws ecr get-login-password --region "), Lit(c.region),
                  Lit(" | docker login --username AWS --password-stdin "),
                  repositoryUri >>,
             DockerBuildPushCommands |->
               << Lit("docker build -t "), name, Lit(" ../frontend && docker tag "),
                  name, Lit(":latest "), repositoryUri, Lit(":latest && docker push "),
                  repositoryUri, Lit(":latest") >> ] ]

\* The secrets map of the task image options: it is empty.
TaskSecrets(props, c) == <<>>

\* The container's environment variables.
TaskEnvironmentWithSecret(props, c) ==
    [ FLASK_APP             |-> <<Lit("app.py")>>,
      FLASK_DEBUG           |-> <<Lit("False")>>,
      COGNITO_USER_POOL_ID  |-> <<props.cognitoUserPoolId>>,
      COGNITO_CLIENT_ID     |-> <<props.cognitoClientId>>,
      COGNITO_CLIENT_SECRET |-> <<Tok(Cognito, c.clientSecret)>>,
      AWS_REGION            |-> <<Lit(c.region)>> ]

TaskEnvironment(props, c) ==
    [ FLASK_APP            |-> <<Lit("app.py")>>,
      FLASK_DEBUG          |-> <<Lit("False")>>,
      COGNITO_USER_POOL_ID |-> <<props.cognitoUserPoolId>>,
      COGNITO_CLIENT_ID    |-> <<props.cognitoClientId>>,
      AWS_REGION           |-> <<Lit(c.region)>> ]

\* The policy statement added to the task role (effect ALLOW).  The account
\* is the stack's own pseudo parameter.
TaskRoleStatementWildcard(props, c) ==
    [ actions   |-> { "cognito-idp:InitiateAuth", "cognito-idp:AdminGetUser",
                      "cognito-idp:AdminInitiateAuth" },
      resources |-> { << Lit("arn:aws:cognito-idp:"), Lit(c.region), Lit(":"),
                         Tok(Ecs, "AWS::AccountId"), Lit(":userpool/"), Lit("*") >> } ]

TaskRoleStatement(props, c) ==
    [ actions   |-> { "cognito-idp:InitiateAuth", "cognito-idp:AdminGetUser",
                      "cognito-idp:AdminInitiateAuth" },
      resources |-> { << Lit("arn:aws:cognito-idp:"), Lit(c.region), Lit(":"),
                         Tok(Ecs, "AWS::AccountId"), Lit(":userpool/"),
                         props.cognitoUserPoolId >> } ]

EcsStack(props, c) ==
    LET containerPort   == OrDefault(props.containerPort, DefaultContainerPort)
        cpu             == OrDefault(props.cpu, DefaultCpu)
        memoryLimitMiB  == OrDefault(props.memoryLimitMiB, DefaultMemoryLimitMiB)
        loadBalancerUrl == Tok(Ecs, c.dnsName)
    IN [ executionRole |->
           [ id |-> "TaskExecutionRole",
             managedPolicies |-> {"service-role/AmazonECSTaskExecutionRolePolicy"} ],
         taskRole |->
           [ id |-> "TaskRole",
             managedPolicies |-> {},
             actions   |-> TaskRoleStatement(props, c).actions,
             resources |-> TaskRoleStatement(props, c).resources ],
         service |->
           [ executionRole      |-> "TaskExecutionRole",
             taskRole           |-> "TaskRole",
             cpu                |-> cpu,
             memoryLimitMiB     |-> memoryLimitMiB,
             desiredCount       |-> DesiredCount,
             containerPort      |-> containerPort,
             image              |-> <<props.ecrRepository.repositoryUri, Lit(":latest")>>,
             environment        |-> TaskEnvironment(props, c),
             secrets            |-> TaskSecrets(props, c),
             publicLoadBalancer |-> TRUE,
             listenerPort       |-> ListenerPort,
             healthCheckGracePeriod |-> HealthCheckGracePeriod,
             healthCheck |->
               [ path |-> "/health", interval |-> HealthCheckInterval,
                 timeout |-> HealthCheckTimeout,
                 healthyThresholdCount   |-> HealthyThresholdCount,
                 unhealthyThresholdCount |-> UnhealthyThresholdCount ],
             scaling |->
               [ minCapacity |-> MinCapacity, maxCapacity |-> MaxCapacity,
                 cpuTarget |-> CpuTargetPercent, memoryTarget |-> MemoryTargetPercent,
                 cooldown |-> ScaleCooldown ] ],
         loadBalancerUrl |-> loadBalancerUrl,
         resources |-> << Resource("FlaskAuthVpc", "destroy"),
                          Resource("FlaskAuthCluster", "destroy"),
                          Resource("TaskExecutionRole", "destroy"),
                          Resource("TaskRole", "destroy"),
                          Resource("FlaskAuthLogGroup", "destroy"),
                          Resource("FlaskAuthService", "destroy") >>,
         outputs |->
           [ LoadBalancerUrl   |-> <<Lit("http://"), loadBalancerUrl>>,
             ClusterName       |-> <<Tok(Ecs, "flask-auth-cluster")>>,
             ServiceName       |-> <<Tok(Ecs, "FlaskAuthService")>>,
             TaskDefinitionArn |-> <<Tok(Ecs, "arn:FlaskAuthTaskDef")>> ] ]

\* The stacks whose values a synthesized EcsStack consumes.
EcsReferences(ecs) ==
    (UNION {Owners(v) : v \in Values(ecs.service.environment)}
       \cup UNION {Owners(v) : v \in Values(ecs.service.secrets)}
       \cup UNION {Owners(v) : v \in ecs.taskRole.resources}
       \cup Owners(ecs.service.image)
       \cup UNION {Owners(v) : v \in Values(ecs.outputs)}) \ {"", Ecs}

\* Stack.addDependency: source now requires target.
AddDependency(deps, source, target) ==
    [deps EXCEPT ![source] = @ \cup {target}]

\* The addDependency calls of the top-level constructor, in order: each is
\* <<source, target>>.  They do not read the props.
DeclaredDependenciesByEnv(props) ==
    IF props = Undefined
    THEN << <<Ecs, Cognito>> >>
    ELSE << <<Ecs, Cognito>>, <<Ecs, Ecr>> >>

DeclaredDependenciesCyclic(props) ==
    << <<Ecs, Cognito>>, <<Ecs, Ecr>>, <<Cognito, Ecs>> >>

DeclaredDependenciesChained(props) ==
    << <<Ecs, Cognito>>, <<Ecs, Ecr>>, <<Ecr, Cognito>> >>

DeclaredDependenciesDeadlocked(props) ==
    << <<Ecs, Cognito>>, <<Ecs, Ecr>>, <<Ecr, Ecs>> >>

DeclaredDependenciesNoRegistry(props) == << <<Ecs, Cognito>> >>

DeclaredDependenciesNoIdentity(props) == << <<Ecs, Ecr>> >>

DeclaredDependencies(props) == << <<Ecs, Cognito>>, <<Ecs, Ecr>> >>

RECURSIVE AddAll(_, _)
AddAll(deps, calls) ==
    IF calls = <<>> THEN deps
    ELSE AddAll(AddDependency(deps, Head(calls)[1], Head(calls)[2]), Tail(calls))

InfrastructureStack(props, c) ==
    LET cognitoStack == CognitoStack([ userPoolName  |-> Some("flask-auth-pool"),
                                       appClientName |-> Some("flask-auth-client") ], c)
        ecrStack     == EcrStack([repositoryName |-> Some("flask-auth-app")], c)
        ecsStack     == EcsStack([ ecrRepository     |-> ecrStack.repository,
                                   cognitoUserPoolId |-> cognitoStack.userPoolId,
                                   cognitoClientId   |-> cognitoStack.userPoolClientId,
                                   containerPort     |-> Some(8000),
                                   cpu               |-> Some(512),
                                   memoryLimitMiB    |-> Some(1024) ], c)
        own == [ ApplicationUrl |-> <<Lit("http://"), ecsStack.loadBalancerUrl>>,
                 DeploymentInstructions |->
                   << Lit("1. Build and push Docker image to ECR"), Lit(" | "),
                      Lit("2. Update ECS service to use new image"), Lit(" | "),
                      Lit("3. Configure Cognito client secret in application") >> ]
    IN [ stacks  |-> Stacks,
         region  |-> IF props = Undefined THEN c.region ELSE props[1].region,
         cognito |-> cognitoStack,
         ecr     |-> ecrStack,
         ecs     |-> ecsStack,
         outputs |-> [ s \in Stacks |->
                         CASE s = Infra   -> own
                           [] s = Cognito -> cognitoStack.outputs
                           [] s = Ecr     -> ecrStack.outputs
                           [] s = Ecs     -> ecsStack.outputs ],
         resources |-> [ s \in Stacks |->
                         CASE s = Infra   -> <<>>
                           [] s = Cognito -> cognitoStack.resources
                           [] s = Ecr     -> ecrStack.resources
                           [] s = Ecs     -> ecsStack.resources ],
         dependencies |-> AddAll([s \in Stacks |-> {}], DeclaredDependencies(props)),
         references |-> [ s \in Stacks |->
                         CASE s = Infra   ->
                                UNION {Owners(v) : v \in Values(own)} \ {"", Infra}
                           [] s = Cognito ->
                                UNION {Owners(v) : v \in Values(cognitoStack.outputs)}
                                   \ {"", Cognito}
                           [] s = Ecr     ->
                                UNION {Owners(v) : v \in Values(ecrStack.outputs)}
                                   \ {"", Ecr}
                           [] s = Ecs     -> EcsReferences(ecsStack) ] ]

NoPlan == [stacks |-> {}]

\* `cdk synth`: the app is constructed with the given props.
Synthesize(props) ==
    /\ stackProps' = props
    /\ plan' = InfrastructureStack(props, cloud)
    /\ UNCHANGED <<cloud, deployVars, registryVars, scalingVars, healthVars, scriptVars, accountVars>>

\* Sizing values a caller can hand to the EcsStack constructor.  The props
\* interface has no desiredCount member; a caller's desiredCount is carried
\* along as an excess member of the props object.
ContainerPorts == {Undefined, Some(0), Some(5000), Some(8000)}
CpuUnits       == {Undefined, Some(256)}
MemoryLimits   == {Undefined, Some(2048)}
DesiredCounts  == {Undefined, Some(1), Some(3)}
Sizings == [containerPort : ContainerPorts, cpu : CpuUnits,
            memoryLimitMiB : MemoryLimits, desiredCount : DesiredCounts]

\* The application synthesized with EcsStack constructed from the given
\* sizing instead of the values the top-level constructor passes.
SynthesizeEcsStack(sizing) ==
    LET app == InfrastructureStack(Undefined, cloud)
    IN /\ stackProps' = sizing
       /\ plan' = [app EXCEPT !.ecs =
                     EcsStack([ ecrRepository     |-> app.ecr.repository,
                                cognitoUserPoolId |-> app.cognito.userPoolId,
                                cognitoClientId   |-> app.cognito.userPoolClientId,
                                containerPort     |-> sizing.containerPort,
                                cpu               |-> sizing.cpu,
                                memoryLimitMiB    |-> sizing.memoryLimitMiB,
                                desiredCount      |-> sizing.desiredCount ], cloud)]
       /\ UNCHANGED <<cloud, deployVars, registryVars, scalingVars, healthVars, scriptVars, accountVars>>

(***************************************************************************)
(* Provisioning: `cdk deploy --all`, then `cdk destroy --all`              *)
(***************************************************************************)

\* Bounds of the provisioning model.
MaxConcurrency  == 2   \* stacks the engine works on at once
DeployMaxImages == 2   \* images pushed while the stacks are deployed

\* An image of the repository; age is the number of days since its push.
Image(tagged, age) == [tagged |-> tagged, age |-> age]

\* `docker push` of a tag: the new image carries it.  Tags are mutable, so
\* when the tag was on image number prev (0: on none) that image loses it.
Pushed(imgs, prev) ==
    Append([i \in DOMAIN imgs |->
              IF i = prev THEN [imgs[i] EXCEPT !.tagged = FALSE] ELSE imgs[i]],
           Image(TRUE, 0))

\* The images a pushed tag can currently be on.
TagHolders(imgs) == {0} \cup {i \in DOMAIN imgs : imgs[i].tagged}

Busy == {s \in Stacks : status[s] \in {"applying", "destroying"}}

\* The stacks that declare a dependency on s.
Dependents(s) == {t \in Stacks : s \in plan.dependencies[t]}

\* The engine starts applying a stack once every stack it depends on is
\* applied; a failed apply ends the run.
ApplyStart(s) ==
    /\ phase = "deploy"
    /\ status[s] = "absent"
    /\ \A t \in Stacks : status[t] # "failed"
    /\ Cardinality(Busy) < MaxConcurrency
    /\ \A d \in plan.dependencies[s] : status[d] = "applied"
    /\ status' = [status EXCEPT ![s] = "applying"]
    /\ UNCHANGED <<phase, purged, created, rolledBack, synthVars, registryVars, scalingVars, healthVars, scriptVars, accountVars>>

\* The ids of the resources of stack s.
ResourceIds(s) == {plan.resources[s][i].id : i \in DOMAIN plan.resources[s]}

\* Of the existing resources of stack s, those the engine leaves behind when
\* it removes the stack's resources.
Retained(s) ==
    {plan.resources[s][i].id : i \in {k \in DOMAIN plan.resources[s] :
                                        plan.resources[s][k].removalPolicy = "retain"}}
        \cap created[s]

\* The engine creates the next resource of a stack it is applying.
ApplyCreate(s) ==
    /\ status[s] = "applying"
    /\ \E i \in DOMAIN plan.resources[s] :
          /\ plan.resources[s][i].id \notin created[s]
          /\ \A k \in 1..(i - 1) : plan.resources[s][k].id \in created[s]
          /\ created' = [created EXCEPT ![s] = @ \cup {plan.resources[s][i].id}]
    /\ UNCHANGED <<phase, status, purged, rolledBack, synthVars, registryVars, scalingVars, healthVars, scriptVars, accountVars>>

ApplySucceed(s) ==
    /\ status[s] = "applying"
    /\ created[s] = ResourceIds(s)
    /\ status' = [status EXCEPT ![s] = "applied"]
    /\ UNCHANGED <<phase, purged, created, rolledBack, synthVars, registryVars, scalingVars, healthVars, scriptVars, accountVars>>

\* A failed apply is rolled back: the engine removes the resources it had
\* created for the stack.
ApplyFail(s) ==
    /\ status[s] = "applying"
    /\ status' = [status EXCEPT ![s] = "failed"]
    /\ created' = [created EXCEPT ![s] = Retained(s)]
    /\ rolledBack' = [rolledBack EXCEPT ![s] = Cardinality(created[s] \ Retained(s))]
    /\ UNCHANGED <<phase, purged, synthVars, registryVars, scalingVars, healthVars, scriptVars, accountVars>>

\* build-and-push.sh against the deployed repository.
PushToDeployed(prev) ==
    /\ status[Ecr] = "applied"
    /\ Len(images) < DeployMaxImages
    /\ prev \in TagHolders(images)
    /\ images' = Pushed(images, prev)
    /\ UNCHANGED <<lastCleanup, deployVars, synthVars, scalingVars, healthVars, scriptVars, accountVars>>

\* The deploy run has ended; `cdk destroy --all` begins.
BeginDestroy ==
    /\ phase = "deploy"
    /\ Busy = {}
    /\ phase' = "destroy"
    /\ UNCHANGED <<status, purged, created, rolledBack, synthVars, registryVars, scalingVars, healthVars, scriptVars, accountVars>>

\* The engine starts destroying a stack once no stack depending on it exists.
DestroyStart(s) ==
    /\ phase = "destroy"
    /\ status[s] = "applied"
    /\ \A t \in Stacks : status[t] # "destroyFailed"
    /\ Cardinality(Busy) < MaxConcurrency
    /\ \A t \in Dependents(s) : status[t] \in {"absent", "failed", "destroyed"}
    /\ status' = [status EXCEPT ![s] = "destroying"]
    /\ UNCHANGED <<phase, purged, created, rolledBack, synthVars, registryVars, scalingVars, healthVars, scriptVars, accountVars>>

\* Deleting the repository: with emptyOnDelete its images are deleted first;
\* without it a repository holding images is not deleted.
DeleteRepository(emptyOnDelete, imgs) ==
    IF emptyOnDelete \/ imgs = <<>>
    THEN [ok |-> TRUE, images |-> <<>>]
    ELSE [ok |-> FALSE, images |-> imgs]

\* Every resource of the stacks has removal policy DESTROY; the only delete
\* that can be refused is the repository's.
DestroyFinish(s) ==
    /\ status[s] = "destroying"
    /\ IF s = Ecr
       THEN LET r == DeleteRepository(plan.ecr.repository.emptyOnDelete, images)
            IN /\ status' = [status EXCEPT ![s] =
                                IF r.ok THEN "destroyed" ELSE "destroyFailed"]
               /\ images' = r.images
               /\ purged' = IF r.ok THEN Len(images) ELSE purged
               /\ created' = IF r.ok THEN [created EXCEPT ![s] = Retained(s)]
                                     ELSE created
       ELSE /\ status' = [status EXCEPT ![s] = "destroyed"]
            /\ created' = [created EXCEPT ![s] = Retained(s)]
            /\ UNCHANGED <<images, purged>>
    /\ UNCHANGED <<phase, rolledBack, lastCleanup, synthVars, scalingVars, healthVars, scriptVars, accountVars>>

(***************************************************************************)
(* The repository under its lifecycle rules                                *)
(***************************************************************************)

\* Bounds of the repository model.
MaxImages   == 11   \* images in the repository; more than MaxImageCount
MaxUntagged == 3    \* untagged images in the repository

\* Ages are counted up to the first value past every rule's maxImageAge:
\* the rules do not tell older images apart.
AgeCap == MaxImageAgeDays + 1

\* The lifecycle rules in evaluation order.  A rule that selects any image
\* has to be evaluated last, so the untagged rule comes first.
LifecycleRules(repository) ==
    LET rules == repository.lifecycleRules
        any   == SelectSeq(rules, LAMBDA r : r.tagStatus = "any")
        other == SelectSeq(rules, LAMBDA r : r.tagStatus # "any")
    IN other \o any

\* Whether rule r selects image img by its tag status.
Selects(r, img) ==
    \/ r.tagStatus = "any"
    \/ r.tagStatus = "untagged" /\ ~img.tagged
    \/ r.tagStatus = "tagged" /\ img.tagged

\* The positions rule r identifies for expiry: images pushed more than
\* maxImageAgeDays ago, or all but the maxImageCount most recently pushed,
\* among the images the rule selects.
Identified(r, imgs) ==
    LET mine == {i \in DOMAIN imgs : Selects(r, imgs[i])}
    IN IF "maxImageAgeDays" \in DOMAIN r
       THEN {i \in mine : imgs[i].age > r.maxImageAgeDays}
       ELSE {i \in mine : Cardinality({j \in mine : j > i}) >= r.maxImageCount}

\* The positions the k-th rule expires: those it identifies, except images
\* that an earlier rule selects by tag status (an image is expired by the
\* first rule whose tag status it matches, or by none).
ExpiredBy(rules, k, imgs) ==
    {i \in Identified(rules[k], imgs) :
        \A h \in 1..(k - 1) : ~Selects(rules[h], imgs[i])}

\* One evaluation of the lifecycle policy: the positions that expire.
Expiring(rules, imgs) ==
    UNION {ExpiredBy(rules, k, imgs) : k \in DOMAIN rules}

\* The images left after the expiring positions are removed.
RECURSIVE Remaining(_, _, _)
Remaining(imgs, gone, i) ==
    IF i > Len(imgs) THEN <<>>
    ELSE (IF i \in gone THEN <<>> ELSE <<imgs[i]>>) \o Remaining(imgs, gone, i + 1)

\* build-and-push.sh: a tag is pushed.
Push(prev) ==
    /\ Len(images) < MaxImages
    /\ prev \in TagHolders(images)
    /\ prev # 0 => Cardinality({i \in DOMAIN images : ~images[i].tagged}) < MaxUntagged
    /\ images' = Pushed(images, prev)
    /\ lastCleanup' = Undefined
    /\ UNCHANGED <<synthVars, deployVars, scalingVars, healthVars, scriptVars, accountVars>>

\* A day passes.
Tick ==
    /\ images' = [i \in DOMAIN images |->
                    [images[i] EXCEPT !.age = Min(@ + 1, AgeCap)]]
    /\ lastCleanup' = Undefined
    /\ UNCHANGED <<synthVars, deployVars, scalingVars, healthVars, scriptVars, accountVars>>

\* The repository contents after one evaluation of the lifecycle policy.
CleanupResult(imgs) ==
    Remaining(imgs, Expiring(LifecycleRules(plan.ecr.repository), imgs), 1)

\* A cleanup cycle: the registry evaluates the lifecycle policy.
Cleanup ==
    /\ images' = CleanupResult(images)
    /\ lastCleanup' = Some(images)
    /\ UNCHANGED <<synthVars, deployVars, scalingVars, healthVars, scriptVars, accountVars>>

(***************************************************************************)
(* Autoscaling: the scalable target and its two target-tracking policies   *)
(***************************************************************************)

Policies == {"CpuScaling", "MemoryScaling"}

TargetPercent(p) ==
    IF p = "CpuScaling" THEN plan.ecs.service.scaling.cpuTarget
                        ELSE plan.ecs.service.scaling.memoryTarget

\* Load signals: average utilization of the service, in percent.
Utilizations == {0, 40, 70, 80, 100}

CeilDiv(a, b) == (a + b - 1) \div b

\* The capacity a target-tracking policy asks for: the task count that
\* would bring the metric to its target.
Proposed(p) == CeilDiv(taskCount * utilization[p], TargetPercent(p))

\* The scalable target keeps the capacity it sets within its bounds.
ClampNoMax(n) == Max(plan.ecs.service.scaling.minCapacity, n)

Clamp(n) ==
    Max(plan.ecs.service.scaling.minCapacity,
        Min(plan.ecs.service.scaling.maxCapacity, n))

\* A load signal arrives for policy p.
LoadSignal(p, u) ==
    /\ utilization' = [utilization EXCEPT ![p] = u]
    /\ UNCHANGED <<taskCount, cooldown, synthVars, deployVars, registryVars, healthVars, scriptVars, accountVars>>

\* Policy p scales out; either policy may do so on its own.
ScaleOut(p) ==
    /\ cooldown[p] = 0
    /\ Clamp(Proposed(p)) > taskCount
    /\ taskCount' = Clamp(Proposed(p))
    /\ cooldown' = [cooldown EXCEPT ![p] = plan.ecs.service.scaling.cooldown]
    /\ UNCHANGED <<utilization, synthVars, deployVars, registryVars, healthVars, scriptVars, accountVars>>

\* The service scales in only when every policy asks for less capacity.
ScaleIn ==
    LET want == Max(Proposed("CpuScaling"), Proposed("MemoryScaling"))
    IN /\ \A p \in Policies : cooldown[p] = 0
       /\ Clamp(want) < taskCount
       /\ taskCount' = Clamp(want)
       /\ cooldown' = [p \in Policies |-> plan.ecs.service.scaling.cooldown]
       /\ UNCHANGED <<utilization, synthVars, deployVars, registryVars, healthVars, scriptVars, accountVars>>

\* The cooldown of policy p runs out.
CooldownElapsed(p) ==
    /\ cooldown[p] > 0
    /\ cooldown' = [cooldown EXCEPT ![p] = 0]
    /\ UNCHANGED <<taskCount, utilization, synthVars, deployVars, registryVars, healthVars, scriptVars, accountVars>>

(***************************************************************************)
(* Health checks: the target group and the service scheduler               *)
(***************************************************************************)

\* Bounds of the health-check model.
MaxTasks  == 1   \* task slots behind the load balancer
MaxChecks == 6   \* health checks in the life of one task

TaskIds == 1..MaxTasks

NoTask == [state |-> "none", age |-> 0, health |-> "initial",
           passes |-> 0, fails |-> 0, lateFails |-> 0,
           maxFails |-> 0, maxLateFails |-> 0]

\* A task as launched: registered with the target group, not yet in rotation.
Launched == [state |-> "running", age |-> 0, health |-> "initial",
             passes |-> 0, fails |-> 0, lateFails |-> 0,
             maxFails |-> 0, maxLateFails |-> 0]

HealthyThresholdOffByOne == HealthyThresholdCount - 1

HealthyThreshold == plan.ecs.service.healthCheck.healthyThresholdCount

UnhealthyThresholdOffByOne == UnhealthyThresholdCount - 1

UnhealthyThreshold == plan.ecs.service.healthCheck.unhealthyThresholdCount

\* The target after one more health check, an interval after the last.  A
\* response that is not a success within the timeout is a failure.  passes
\* and fails count consecutive results; lateFails counts the consecutive
\* failures that happened after the grace period; maxFails and maxLateFails
\* are the longest such runs in the task's life.
Checked(task, ok) ==
    LET age    == task.age + plan.ecs.service.healthCheck.interval
        passes == IF ok THEN task.passes + 1 ELSE 0
        fails  == IF ok THEN 0 ELSE task.fails + 1
        late   == IF ok \/ age < plan.ecs.service.healthCheckGracePeriod
                  THEN 0 ELSE task.lateFails + 1
    IN [ state  |-> task.state,
         age    |-> age,
         passes |-> passes,
         fails  |-> fails,
         lateFails    |-> late,
         maxFails     |-> Max(task.maxFails, fails),
         maxLateFails |-> Max(task.maxLateFails, late),
         health |-> IF ok /\ passes >= HealthyThreshold THEN "healthy"
                    ELSE IF ~ok /\ fails >= UnhealthyThreshold THEN "unhealthy"
                    ELSE task.health ]

\* Whether the target is in rotation: the load balancer routes to it.
InRotation(task) == task.state = "running" /\ task.health = "healthy"

\* The scheduler starts a task in a free slot (a first task, or the
\* replacement of a stopped one).
Launch(t) ==
    /\ tasks[t].state \in {"none", "stopped"}
    /\ tasks' = [tasks EXCEPT ![t] = Launched]
    /\ UNCHANGED <<synthVars, deployVars, registryVars, scalingVars, scriptVars, accountVars>>

\* The load balancer checks task t.
HealthCheck(t, ok) ==
    /\ tasks[t].state = "running"
    /\ tasks[t].age < MaxChecks * plan.ecs.service.healthCheck.interval
    /\ tasks' = [tasks EXCEPT ![t] = Checked(tasks[t], ok)]
    /\ UNCHANGED <<synthVars, deployVars, registryVars, scalingVars, scriptVars, accountVars>>

\* The scheduler stops a task the load balancer reports unhealthy; during
\* the task's grace period it ignores that report.
StopUnhealthy(t) ==
    /\ tasks[t].state = "running"
    /\ tasks[t].health = "unhealthy"
    /\ tasks[t].age >= plan.ecs.service.healthCheckGracePeriod
    /\ tasks' = [tasks EXCEPT ![t].state = "stopped"]
    /\ UNCHANGED <<synthVars, deployVars, registryVars, scalingVars, scriptVars, accountVars>>

(***************************************************************************)
(* The shell scripts, run under `set -e`                                   *)
(***************************************************************************)

\* Bound of the script model: commands end with an exit status 0..MaxExitStatus.
MaxExitStatus == 2

ExitStatuses == 0..MaxExitStatus

\* The steps of a script.
\*   Guard(cmd)          if ! cmd; then ...; exit 1; fi
\*   Run(cmd)            a simple command, or VAR=$(cmd)
\*   Pipe(left, right)   left | right
\*   Read(var)           read -p "..." var
\*   Require(var)        if [ -z "$var" ]; then ...; exit 1; fi
\*   Probe(cmd, onFail)  cmd as the condition of an if, or left of &&:
\*                       the next step when it succeeds, step onFail otherwise
\*   Test(var, v, onFalse)  if [ "$var" == "v" ]
\*   Goto(target)        the end of a then-branch
\*   Banner              the completion banner and the echo lines after it
Guard(cmd)             == [kind |-> "guard", cmd |-> cmd]
Run(cmd)               == [kind |-> "run", cmd |-> cmd]
Pipe(left, right)      == [kind |-> "pipe", left |-> left, right |-> right]
Read(var)              == [kind |-> "read", var |-> var]
Require(var)           == [kind |-> "require", var |-> var]
Probe(cmd, onFail)     == [kind |-> "probe", cmd |-> cmd, onFail |-> onFail]
Test(var, v, onFalse)  == [kind |-> "test", var |-> var, value |-> v, onFalse |-> onFalse]
Goto(target)           == [kind |-> "goto", target |-> target]
Banner                 == [kind |-> "banner"]

DeployScriptCheckAfterBootstrap ==
    << Run("aws sts get-caller-identity --query Account"),
       Run("cdk bootstrap"),
       Guard("aws sts get-caller-identity"),
       Run("npm run build"),
       Run("cdk synth"),
       Run("cdk deploy --all"),
       Banner >>

DeployScript ==
    << Guard("aws sts get-caller-identity"),
       Run("aws sts get-caller-identity --query Account"),
       Run("cdk bootstrap"),
       Run("npm run build"),
       Run("cdk synth"),
       Run("cdk deploy --all"),
       Banner >>

BuildAndPushScript ==
    << Guard("aws sts get-caller-identity"),
       Run("aws sts get-caller-identity --query Account"),
       Pipe("aws ecr get-login-password", "docker login"),
       Run("cd ../frontend"),
       Run("docker build"),
       Run("docker tag"),
       Run("docker push"),
       Banner >>

SetupScriptCreateRoleAlways ==
    << Guard("aws sts get-caller-identity"),
       Run("aws sts get-caller-identity --query Account"),
       Read("GITHUB_REPO"),
       Require("GITHUB_REPO"),
       Read("PERMISSION_CHOICE"),
       Probe("aws iam get-open-id-connect-provider", 8),
       Goto(9),
       Run("aws iam create-open-id-connect-provider"),
       Run("cat > /tmp/github-cdk-trust-policy.json"),
       Goto(13),
       Run("aws iam update-assume-role-policy"),
       Goto(14),
       Run("aws iam create-role"),
       Test("PERMISSION_CHOICE", "1", 17),
       Run("aws iam attach-role-policy"),
       Goto(19),
       Run("cat > /tmp/github-cdk-permissions-policy.json"),
       Run("aws iam put-role-policy"),
       Run("rm /tmp/github-cdk-trust-policy.json"),
       Probe("[ -f /tmp/github-cdk-permissions-policy.json ]", 22),
       Run("rm /tmp/github-cdk-permissions-policy.json"),
       Run("aws iam get-role --query Role.Arn"),
       Banner >>

SetupScript ==
    << Guard("aws sts get-caller-identity"),
       Run("aws sts get-caller-identity --query Account"),
       Read("GITHUB_REPO"),
       Require("GITHUB_REPO"),
       Read("PERMISSION_CHOICE"),
       Probe("aws iam get-open-id-connect-provider", 8),
       Goto(9),
       Run("aws iam create-open-id-connect-provider"),
       Run("cat > /tmp/github-cdk-trust-policy.json"),
       Probe("aws iam get-role", 13),
       Run("aws iam update-assume-role-policy"),
       Goto(14),
       Run("aws iam create-role"),
       Test("PERMISSION_CHOICE", "1", 17),
       Run("aws iam attach-role-policy"),
       Goto(19),
       Run("cat > /tmp/github-cdk-permissions-policy.json"),
       Run("aws iam put-role-policy"),
       Run("rm /tmp/github-cdk-trust-policy.json"),
       Probe("[ -f /tmp/github-cdk-permissions-policy.json ]", 22),
       Run("rm /tmp/github-cdk-permissions-policy.json"),
       Run("aws iam get-role --query Role.Arn"),
       Banner >>

ScriptNames == {"deploy.sh", "build-and-push.sh", "setup-github-actions-iam.sh"}

Steps(name) ==
    CASE name = "deploy.sh"         -> DeployScript
      [] name = "build-and-push.sh" -> BuildAndPushScript
      [] name = "setup-github-actions-iam.sh" -> SetupScript

\* What the operator can type at a prompt.
Inputs(var) == IF var = "GITHUB_REPO" THEN {"", "owner/repo"} ELSE {"1", "2"}

Running == script # "none" /\ exitStatus = Undefined

Step == Steps(script)[pc]

\* The step control reaches at position k: a Goto is followed.
Target(k) ==
    LET st == Steps(script)[k]
    IN IF st.kind = "goto" THEN st.target ELSE k

\* The log with one more command.
Logged(cmd, st) == Append(log, [step |-> pc, cmd |-> cmd, status |-> st])

\* Bound of the script model: how many times a script is started.
MaxRuns == 2

\* The account before the setup script has ever run: no OIDC provider for
\* token.actions.githubusercontent.com and no role GitHubActionsCDKDeployRole.
\* trust is the repository the role's trust policy names; attached and
\* inline are the role's managed and inline policies.
NoIam == [provider |-> FALSE, role |-> FALSE, trust |-> "",
          attached |-> {}, inline |-> {}]

TrustPolicyFile       == "/tmp/github-cdk-trust-policy.json"
PermissionsPolicyFile == "/tmp/github-cdk-permissions-policy.json"

\* Whether the account state lets a command succeed: an IAM entity is read,
\* updated or given a policy only when it exists and created only when it
\* does not; a file is read or removed only when it exists.
CanSucceed(cmd) ==
    CASE cmd = "aws iam get-open-id-connect-provider"    -> iam.provider
      [] cmd = "aws iam create-open-id-connect-provider" -> ~iam.provider
      [] cmd = "aws iam get-role"                        -> iam.role
      [] cmd = "aws iam get-role --query Role.Arn"       -> iam.role
      [] cmd = "aws iam create-role" ->
            ~iam.role /\ TrustPolicyFile \in files
      [] cmd = "aws iam update-assume-role-policy" ->
            iam.role /\ TrustPolicyFile \in files
      [] cmd = "aws iam attach-role-policy"              -> iam.role
      [] cmd = "aws iam put-role-policy" ->
            iam.role /\ PermissionsPolicyFile \in files
      [] cmd = "rm /tmp/github-cdk-trust-policy.json" ->
            TrustPolicyFile \in files
      [] cmd = "rm /tmp/github-cdk-permissions-policy.json" ->
            PermissionsPolicyFile \in files
      [] cmd = "[ -f /tmp/github-cdk-permissions-policy.json ]" ->
            PermissionsPolicyFile \in files
      [] OTHER -> TRUE

\* The exit statuses a command can end with.  The file test depends on the
\* file alone; any other command can fail for a reason of its own (network,
\* permissions) and succeeds only if the account state lets it.
Outcomes(cmd) ==
    IF cmd = "[ -f /tmp/github-cdk-permissions-policy.json ]"
    THEN IF CanSucceed(cmd) THEN {0} ELSE {1}
    ELSE IF CanSucceed(cmd) THEN ExitStatuses ELSE ExitStatuses \ {0}

\* The IAM state after a command has succeeded.  The trust policy document
\* names the repository typed at the prompt.
IamAfter(cmd) ==
    CASE cmd = "aws iam create-open-id-connect-provider" ->
            [iam EXCEPT !.provider = TRUE]
      [] cmd = "aws iam create-role" ->
            [iam EXCEPT !.role = TRUE, !.trust = answers["GITHUB_REPO"]]
      [] cmd = "aws iam update-assume-role-policy" ->
            [iam EXCEPT !.trust = answers["GITHUB_REPO"]]
      [] cmd = "aws iam attach-role-policy" ->
            [iam EXCEPT !.attached = @ \cup {"AdministratorAccess"}]
      [] cmd = "aws iam put-role-policy" ->
            [iam EXCEPT !.inline = @ \cup {"GitHubActionsCDKPolicy"}]
      [] OTHER -> iam

\* The temporary files after a command has succeeded.
FilesAfter(cmd) ==
    CASE cmd = "cat > /tmp/github-cdk-trust-policy.json" ->
            files \cup {TrustPolicyFile}
      [] cmd = "cat > /tmp/github-cdk-permissions-policy.json" ->
            files \cup {PermissionsPolicyFile}
      [] cmd = "rm /tmp/github-cdk-trust-policy.json" ->
            files \ {TrustPolicyFile}
      [] cmd = "rm /tmp/github-cdk-permissions-policy.json" ->
            files \ {PermissionsPolicyFile}
      [] OTHER -> files

\* A command ends with status st: its effect on the account, and whether it
\* failed although the account state let it succeed.
Executed(cmd, st) ==
    /\ st \in Outcomes(cmd)
    /\ iam' = IF st = 0 THEN IamAfter(cmd) ELSE iam
    /\ files' = IF st = 0 THEN FilesAfter(cmd) ELSE files
    /\ faulted' = (faulted \/ (st # 0 /\ CanSucceed(cmd)))
    /\ UNCHANGED <<runs, previous>>

\* The operator starts a script.
Invoke(name) ==
    /\ script = "none"
    /\ script' = name
    /\ pc' = 1
    /\ runs' = 1
    /\ UNCHANGED <<exitStatus, log, banner, answers, iam, files, faulted, previous>>
    /\ UNCHANGED <<synthVars, deployVars, registryVars, scalingVars, healthVars>>

\* The operator runs the script again after it has ended.
RunAgain ==
    /\ script # "none"
    /\ exitStatus # Undefined
    /\ runs < MaxRuns
    /\ runs' = runs + 1
    /\ previous' = IF exitStatus = Some(0)
                   THEN Some([answers |-> answers, iam |-> iam])
                   ELSE Undefined
    /\ pc' = 1
    /\ exitStatus' = Undefined
    /\ log' = <<>>
    /\ banner' = FALSE
    /\ answers' = [v \in DOMAIN answers |-> ""]
    /\ faulted' = FALSE
    /\ UNCHANGED <<script, iam, files>>
    /\ UNCHANGED <<synthVars, deployVars, registryVars, scalingVars, healthVars>>

\* The credential check: the command is the condition of an if, so its
\* failure does not end the script by itself; the then-branch does, with 1.
CheckCredentials(st) ==
    /\ Running /\ Step.kind = "guard"
    /\ Executed(Step.cmd, st)
    /\ log' = Logged(Step.cmd, st)
    /\ IF st = 0
       THEN pc' = Target(pc + 1) /\ UNCHANGED exitStatus
       ELSE exitStatus' = Some(1) /\ UNCHANGED pc
    /\ UNCHANGED <<script, banner, answers>>
    /\ UNCHANGED <<synthVars, deployVars, registryVars, scalingVars, healthVars>>

\* A simple command under `set -e`: a non-zero status ends the script with
\* that status.
RunCommand(st) ==
    /\ Running /\ Step.kind = "run"
    /\ Executed(Step.cmd, st)
    /\ log' = Logged(Step.cmd, st)
    /\ IF st = 0
       THEN pc' = Target(pc + 1) /\ UNCHANGED exitStatus
       ELSE exitStatus' = Some(st) /\ UNCHANGED pc
    /\ UNCHANGED <<script, banner, answers>>
    /\ UNCHANGED <<synthVars, deployVars, registryVars, scalingVars, healthVars>>

\* A pipeline: both commands run; without `pipefail` the status of the
\* pipeline is the status of its last command.
RunPipeline(left, right) ==
    /\ Running /\ Step.kind = "pipe"
    /\ faulted' = (faulted \/ left # 0 \/ right # 0)
    /\ UNCHANGED <<iam, files, runs, previous>>
    /\ log' = log \o << [step |-> pc, cmd |-> Step.left,  status |-> left],
                        [step |-> pc, cmd |-> Step.right, status |-> right] >>
    /\ IF right = 0
       THEN pc' = Target(pc + 1) /\ UNCHANGED exitStatus
       ELSE exitStatus' = Some(right) /\ UNCHANGED pc
    /\ UNCHANGED <<script, banner, answers>>
    /\ UNCHANGED <<synthVars, deployVars, registryVars, scalingVars, healthVars>>

\* `read`: the variable is assigned the line typed; at end of input the
\* status is 1 and `set -e` ends the script.
ReadInput(value, eof) ==
    /\ Running /\ Step.kind = "read"
    /\ value \in Inputs(Step.var)
    /\ faulted' = (faulted \/ eof)
    /\ UNCHANGED <<iam, files, runs, previous>>
    /\ log' = Logged("read", IF eof THEN 1 ELSE 0)
    /\ IF eof
       THEN exitStatus' = Some(1) /\ UNCHANGED <<pc, answers>>
       ELSE /\ answers' = [answers EXCEPT ![Step.var] = value]
            /\ pc' = Target(pc + 1)
            /\ UNCHANGED exitStatus
    /\ UNCHANGED <<script, banner>>
    /\ UNCHANGED <<synthVars, deployVars, registryVars, scalingVars, healthVars>>

\* A required answer: the script ends with 1 when it is empty.
RequireInput ==
    /\ Running /\ Step.kind = "require"
    /\ IF answers[Step.var] = ""
       THEN exitStatus' = Some(1) /\ UNCHANGED pc
       ELSE pc' = Target(pc + 1) /\ UNCHANGED exitStatus
    /\ UNCHANGED <<script, log, banner, answers, accountVars>>
    /\ UNCHANGED <<synthVars, deployVars, registryVars, scalingVars, healthVars>>

\* A command whose status is tested: neither outcome ends the script.
ProbeCommand(st) ==
    /\ Running /\ Step.kind = "probe"
    /\ Executed(Step.cmd, st)
    /\ log' = Logged(Step.cmd, st)
    /\ pc' = IF st = 0 THEN Target(pc + 1) ELSE Target(Step.onFail)
    /\ UNCHANGED <<script, exitStatus, banner, answers>>
    /\ UNCHANGED <<synthVars, deployVars, registryVars, scalingVars, healthVars>>

TestVariable ==
    /\ Running /\ Step.kind = "test"
    /\ pc' = IF answers[Step.var] = Step.value
             THEN Target(pc + 1) ELSE Target(Step.onFalse)
    /\ UNCHANGED <<script, exitStatus, log, banner, answers, accountVars>>
    /\ UNCHANGED <<synthVars, deployVars, registryVars, scalingVars, healthVars>>

\* The completion banner; the script then ends with status 0.
PrintBanner ==
    /\ Running /\ Step.kind = "banner"
    /\ banner' = TRUE
    /\ exitStatus' = Some(0)
    /\ UNCHANGED <<script, pc, log, answers, accountVars>>
    /\ UNCHANGED <<synthVars, deployVars, registryVars, scalingVars, healthVars>>

(***************************************************************************)
(* Specifications                                                          *)
(***************************************************************************)

\* The environment the runtime models are deployed into.
DeployedCloud == [ region |-> "us-east-1", userPoolId |-> "pool-1",
                   clientId |-> "client-1", clientSecret |-> "secret-1",
                   dnsName |-> "alb-1.elb.amazonaws.com" ]

\* The application synthesized, nothing provisioned yet.
Synthesized ==
    /\ cloud = DeployedCloud
    /\ stackProps = Undefined
    /\ plan = InfrastructureStack(Undefined, DeployedCloud)

Unprovisioned ==
    /\ phase = "deploy"
    /\ status = [s \in Stacks |-> "absent"]
    /\ purged = 0
    /\ created = [s \in Stacks |-> {}]
    /\ rolledBack = [s \in Stacks |-> 0]

EmptyRepository ==
    /\ images = <<>>
    /\ lastCleanup = Undefined

ServiceAtRest ==
    /\ taskCount = plan.ecs.service.desiredCount
    /\ utilization = [p \in Policies |-> 0]
    /\ cooldown = [p \in Policies |-> 0]
    /\ tasks = [t \in TaskIds |-> NoTask]

NoScript ==
    /\ script = "none"
    /\ pc = 0
    /\ exitStatus = Undefined
    /\ log = <<>>
    /\ banner = FALSE
    /\ answers = [v \in {"GITHUB_REPO", "PERMISSION_CHOICE"} |-> ""]
    /\ iam = NoIam
    /\ files = {}
    /\ runs = 0
    /\ faulted = FALSE
    /\ previous = Undefined

Init == Synthesized /\ Unprovisioned /\ EmptyRepository /\ ServiceAtRest /\ NoScript

Next ==
    \/ \E s \in Stacks : ApplyStart(s)
    \/ \E s \in Stacks : ApplyCreate(s)
    \/ \E s \in Stacks : ApplySucceed(s)
    \/ \E s \in Stacks : ApplyFail(s)
    \/ \E prev \in 0..DeployMaxImages : PushToDeployed(prev)
    \/ BeginDestroy
    \/ \E s \in Stacks : DestroyStart(s)
    \/ \E s \in Stacks : DestroyFinish(s)

Spec == Init /\ [][Next]_vars

\* One `cdk deploy --all` run.  The engine keeps working: a stack that can be
\* started is started, a resource that can be created is created, and an
\* apply whose resources all exist completes, unless it fails.
NextDeploy ==
    \/ \E s \in Stacks : ApplyStart(s)
    \/ \E s \in Stacks : ApplyCreate(s)
    \/ \E s \in Stacks : ApplySucceed(s)
    \/ \E s \in Stacks : ApplyFail(s)

DeployFairness ==
    \A s \in Stacks :
        /\ WF_vars(ApplyStart(s))
        /\ WF_vars(ApplyCreate(s))
        /\ WF_vars(ApplySucceed(s))

SpecDeploy == Init /\ [][NextDeploy]_vars /\ DeployFairness

InitSynth ==
    /\ cloud \in Clouds
    /\ stackProps = Undefined
    /\ plan = NoPlan
    /\ Unprovisioned /\ EmptyRepository
    /\ taskCount = DesiredCount
    /\ utilization = [p \in Policies |-> 0]
    /\ cooldown = [p \in Policies |-> 0]
    /\ tasks = [t \in TaskIds |-> NoTask]
    /\ NoScript

NextSynth == \E props \in StackPropsSet : Synthesize(props)

SpecSynth == InitSynth /\ [][NextSynth]_vars

NextSizing == \E sizing \in Sizings : SynthesizeEcsStack(sizing)

SpecSizing == InitSynth /\ [][NextSizing]_vars

NextRegistry ==
    \/ \E prev \in 0..MaxImages : Push(prev)
    \/ Tick
    \/ Cleanup

SpecRegistry == Init /\ [][NextRegistry]_vars

NextScaling ==
    \/ \E p \in Policies, u \in Utilizations : LoadSignal(p, u)
    \/ \E p \in Policies : ScaleOut(p)
    \/ ScaleIn
    \/ \E p \in Policies : CooldownElapsed(p)

SpecScaling == Init /\ [][NextScaling]_vars

NextHealth ==
    \/ \E t \in TaskIds : Launch(t)
    \/ \E t \in TaskIds, ok \in BOOLEAN : HealthCheck(t, ok)
    \/ \E t \in TaskIds : StopUnhealthy(t)

SpecHealth == Init /\ [][NextHealth]_vars

NextScripts ==
    \/ \E name \in ScriptNames : Invoke(name)
    \/ \E st \in ExitStatuses : CheckCredentials(st)
    \/ \E st \in ExitStatuses : RunCommand(st)
    \/ \E left \in ExitStatuses, right \in ExitStatuses : RunPipeline(left, right)
    \/ \E value \in {"", "1", "2", "owner/repo"}, eof \in BOOLEAN : ReadInput(value, eof)
    \/ RequireInput
    \/ \E st \in ExitStatuses : ProbeCommand(st)
    \/ TestVariable
    \/ PrintBanner

SpecScripts == Init /\ [][NextScripts]_vars

\* The setup script, run and run again.
NextSetup ==
    \/ Invoke("setup-github-actions-iam.sh")
    \/ \E st \in ExitStatuses : CheckCredentials(st)
    \/ \E st \in ExitStatuses : RunCommand(st)
    \/ \E value \in {"", "1", "2", "owner/repo"}, eof \in BOOLEAN : ReadInput(value, eof)
    \/ RequireInput
    \/ \E st \in ExitStatuses : ProbeCommand(st)
    \/ TestVariable
    \/ PrintBanner
    \/ RunAgain

SpecSetup == Init /\ [][NextSetup]_vars

(***************************************************************************)
(* Properties                                                              *)
(***************************************************************************)

\* C1: the apply of EcsStack does not start until the applies of CognitoStack
\* and EcrStack have both completed successfully; while either is not yet
\* applied, is being applied or has failed, EcsStack is never applied.
C1_OrchestrationAfterPrerequisites ==
    \A p \in {Cognito, Ecr} :
        status[p] \in {"absent", "applying", "failed"} => status[Ecs] = "absent"

C1_Witness == phase = "deploy" /\ status[Ecs] = "applied"

\* C2: whatever props the top-level stack is constructed with, the declared
\* dependencies of EcsStack contain CognitoStack and EcrStack.
C2_DependenciesAlwaysDeclared ==
    plan # NoPlan => {Cognito, Ecr} \subseteq plan.dependencies[Ecs]

C2_Witness == plan # NoPlan /\ stackProps = Undefined

\* C3: every stack that consumes a value of another stack declares a
\* dependency on it.
C3_EveryReferenceDeclared ==
    plan # NoPlan =>
        \A a \in Stacks : plan.references[a] \subseteq plan.dependencies[a]

\* C4: neither CognitoStack nor EcrStack is destroyed, or being destroyed,
\* while EcsStack still exists.
C4_ReverseOrderDestroy ==
    \A p \in {Cognito, Ecr} :
        status[p] \in {"destroying", "destroyed", "destroyFailed"}
            => status[Ecs] \in {"absent", "failed", "destroyed"}

C4_Witness ==
    /\ status[Ecs] = "destroyed"
    /\ status[Cognito] = "destroyed"
    /\ status[Ecr] = "destroying"

\* C5: with empty-on-delete the destroy of EcrStack never fails and leaves
\* no image, also when the repository held images; without it, deleting a
\* repository that holds images fails and keeps every image.
C5_EmptyOnDelete ==
    /\ status[Ecr] # "destroyFailed"
    /\ status[Ecr] = "destroyed" => images = <<>>
    /\ images # <<>> =>
          LET r == DeleteRepository(FALSE, images)
          IN ~r.ok /\ r.images = images

C5_Witness == status[Ecr] = "destroyed" /\ purged > 0

TaggedOf(imgs) == SelectSeq(imgs, LAMBDA g : g.tagged)

\* The n most recently pushed images of imgs.
LastN(imgs, n) == SubSeq(imgs, Max(1, Len(imgs) - n + 1), Len(imgs))

\* C6 as stated: after a cleanup cycle the tagged images retained are
\* exactly the 10 most recently pushed tagged images, and no untagged image
\* older than 1 day is left.
C6_TenNewestTaggedRetained ==
    lastCleanup # Undefined =>
        /\ TaggedOf(images) = LastN(TaggedOf(lastCleanup[1]), 10)
        /\ \A i \in DOMAIN images : ~images[i].tagged => images[i].age <= 1

\* C6 amended: after a cleanup cycle the tagged images retained are exactly
\* the tagged ones among the 10 most recently pushed images, tagged or not,
\* and no untagged image older than 1 day is left.
C6_TaggedAmongTenNewestRetained ==
    lastCleanup # Undefined =>
        /\ TaggedOf(images) = TaggedOf(LastN(lastCleanup[1], 10))
        /\ \A i \in DOMAIN images : ~images[i].tagged => images[i].age <= 1

C6_Witness ==
    /\ lastCleanup # Undefined
    /\ Len(TaggedOf(lastCleanup[1])) = 10
    /\ Len(TaggedOf(images)) = 9
    /\ \E i \in DOMAIN lastCleanup[1] :
          ~lastCleanup[1][i].tagged /\ lastCleanup[1][i].age > 1

C8_RotationFollowsThresholds ==
    [][\A t \in TaskIds :
         LET a == tasks[t]
             b == tasks'[t]
         IN /\ (b.state = "running" /\ b.fails >= 3) => ~InRotation(b)
            /\ (b.state = "running" /\ b.passes >= 2 /\ b.age >= 60) => InRotation(b)
            /\ (a.state = "running" /\ b.state = "running"
                  /\ InRotation(a) # InRotation(b)) =>
                    IF InRotation(b) THEN b.passes >= 2 ELSE b.fails >= 3]_vars

C8_Witness ==
    \E t \in TaskIds :
        /\ tasks[t].state = "running"
        /\ tasks[t].health = "unhealthy"
        /\ tasks[t].fails = 3
        /\ tasks[t].age = 150

\* C9 as stated: failed checks inside the grace period do not count against
\* a task: a task is stopped only after 3 consecutive checks have failed
\* outside its grace period.
C9_GraceFailuresNeverCount ==
    [][\A t \in TaskIds :
         (tasks[t].state = "running" /\ tasks'[t].state = "stopped")
             => tasks[t].maxLateFails >= 3]_vars

\* C9 amended: a task is stopped only once its 60 s grace period has ended
\* and only after 3 consecutive checks have failed, those inside the grace
\* period included.
C9_NotStoppedDuringGrace ==
    [][\A t \in TaskIds :
         (tasks[t].state = "running" /\ tasks'[t].state = "stopped")
             => tasks[t].age >= 60 /\ tasks[t].maxFails >= 3]_vars

C9_Witness ==
    \E t \in TaskIds :
        /\ tasks[t].state = "stopped"
        /\ tasks[t].maxFails = 3
        /\ tasks[t].maxLateFails = 2

\* C10: the client secret is part of no stack output and of no environment
\* variable or secret of the task, and the outputs and the task's
\* environment are the same whichever secret the platform generated.
C10_SecretNotExposed ==
    plan # NoPlan =>
        /\ \A s \in Stacks : ~Appears(cloud.clientSecret, plan.outputs[s])
        /\ ~Appears(cloud.clientSecret, plan.ecs.service.environment)
        /\ ~Appears(cloud.clientSecret, plan.ecs.service.secrets)
        /\ \A other \in Secrets :
              LET p == InfrastructureStack(stackProps,
                                           [cloud EXCEPT !.clientSecret = other])
              IN /\ p.outputs = plan.outputs
                 /\ p.ecs.service.environment = plan.ecs.service.environment
                 /\ p.ecs.service.secrets = plan.ecs.service.secrets

C10_Witness ==
    /\ plan # NoPlan
    /\ plan.cognito.generateSecret
    /\ plan.cognito.clientSecret = "secret-2"

\* C11: the task role is least-privilege: every (action, resource) pair it
\* allows has one of the three authentication actions and the ARN of the user
\* pool created by CognitoStack as resource; the role carries no managed
\* policy; the execution role and the task role of the service are two
\* distinct roles.
C11_TaskRoleLeastPrivilege ==
    plan # NoPlan =>
        /\ \A a \in plan.ecs.taskRole.actions, r \in plan.ecs.taskRole.resources :
              /\ a \in { "cognito-idp:InitiateAuth", "cognito-idp:AdminGetUser",
                         "cognito-idp:AdminInitiateAuth" }
              /\ Len(r) = 6
              /\ r[1] = Lit("arn:aws:cognito-idp:")
              /\ r[5] = Lit(":userpool/")
              /\ r[6] = plan.cognito.userPoolId
              /\ r[6].val = cloud.userPoolId
              /\ \A i \in DOMAIN r : r[i].val # "*"
        /\ plan.ecs.taskRole.managedPolicies = {}
        /\ plan.ecs.executionRole.id # plan.ecs.taskRole.id
        /\ plan.ecs.service.executionRole = plan.ecs.executionRole.id
        /\ plan.ecs.service.taskRole = plan.ecs.taskRole.id

C11_Witness ==
    /\ plan # NoPlan
    /\ Cardinality(plan.ecs.taskRole.actions) = 3
    /\ Cardinality(plan.ecs.taskRole.resources) = 1
    /\ cloud.userPoolId = "pool-2"

\* C13: the application deployed with its default configuration has a public
\* load balancer listening on port 80 that forwards to container port 8000,
\* and the service starts with exactly 1 task.
C13_DefaultDeployment ==
    status[Ecs] = "applied" =>
        /\ plan.ecs.service.publicLoadBalancer
        /\ plan.ecs.service.listenerPort = 80
        /\ plan.ecs.service.containerPort = 8000
        /\ plan.ecs.service.desiredCount = 1
        /\ taskCount = 1

C13_Witness ==
    /\ stackProps = Undefined
    /\ phase = "deploy"
    /\ status[Ecs] = "applied"
    /\ plan.ecs.service.listenerPort # plan.ecs.service.containerPort

\* The value a plain override yields: the supplied value, else the default.
Override(opt, default) == IF opt = Undefined THEN default ELSE opt[1]

\* C14: container port, CPU units, memory limit and desired task count are
\* each a plain override of EcsStack: the service uses exactly the supplied
\* value, and the default (8000, 512, 1024, 1) when none is supplied.
C14_PlainOverrides ==
    plan # NoPlan =>
        /\ plan.ecs.service.containerPort = Override(stackProps.containerPort, 8000)
        /\ plan.ecs.service.cpu = Override(stackProps.cpu, 512)
        /\ plan.ecs.service.memoryLimitMiB = Override(stackProps.memoryLimitMiB, 1024)
        /\ plan.ecs.service.desiredCount = Override(stackProps.desiredCount, 1)

\* C15: in deploy.sh and build-and-push.sh, once any command (either side of
\* the registry-login pipeline included) has exited non-zero, the script has
\* ended with a non-zero exit status, no command of a later step has run and
\* the completion banner is not printed.
C15_FailFast ==
    script \in {"deploy.sh", "build-and-push.sh"} =>
        \A i \in DOMAIN log :
            log[i].status # 0 =>
                /\ exitStatus # Undefined
                /\ exitStatus # Some(0)
                /\ \A j \in DOMAIN log : log[j].step <= log[i].step
                /\ ~banner

\* C16: when the credential check of a script fails, the script exits with
\* status 1 having run no other command: the check is the first command of
\* the script, so no bootstrap, build, synth, deploy, login or push precedes
\* or follows a failed check.
C16_CredentialsCheckedFirst ==
    /\ log # <<>> => log[1].cmd = "aws sts get-caller-identity"
    /\ \A i \in DOMAIN log :
          (log[i].cmd = "aws sts get-caller-identity" /\ log[i].status # 0) =>
              /\ Len(log) = 1
              /\ exitStatus = Some(1)
              /\ ~banner

C16_Witness ==
    /\ script = "build-and-push.sh"
    /\ Len(log) = 1
    /\ log[1].status = 2
    /\ exitStatus = Some(1)

Edges(p) ==
    {e \in Stacks \X Stacks : e[2] \in p.dependencies[e[1]] \cup p.references[e[1]]}

\* Pairs joined by a path of at most n edges of R.
RECURSIVE Paths(_, _)
Paths(R, n) ==
    IF n = 1 THEN R
    ELSE LET shorter == Paths(R, n - 1)
         IN shorter \cup {e \in Stacks \X Stacks :
                            \E m \in Stacks : <<e[1], m>> \in shorter /\ <<m, e[2]>> \in R}

\* C18: the dependency relation among the four stacks, explicit edges and
\* data-flow edges together, is acyclic: no stack reaches itself.
C18_DependenciesAcyclic ==
    plan # NoPlan =>
        \A s \in Stacks : <<s, s>> \notin Paths(Edges(plan), Cardinality(Stacks))

C18_Witness ==
    /\ plan # NoPlan
    /\ Edges(plan) = {<<Infra, Ecs>>, <<Ecs, Cognito>>, <<Ecs, Ecr>>}
    /\ <<Infra, Cognito>> \in Paths(Edges(plan), Cardinality(Stacks))

\* A deploy run that has ended without a failed apply: nothing is in
\* progress and no stack is left that the engine could start.
DeployCompleted ==
    /\ phase = "deploy"
    /\ Busy = {}
    /\ \A s \in Stacks : status[s] # "failed"
    /\ \A s \in Stacks :
          status[s] = "absent" => \E d \in plan.dependencies[s] : status[d] # "applied"

\* C19: CognitoStack and EcrStack do not depend on each other, so the engine
\* can start either whatever the state of the other; every deploy run that
\* ends without a failed apply ends in the same state: every stack applied
\* with all of its resources.
C19_IndependentAppliesConfluent ==
    /\ Cognito \notin plan.dependencies[Ecr] \cup plan.references[Ecr]
    /\ Ecr \notin plan.dependencies[Cognito] \cup plan.references[Cognito]
    /\ \A s \in {Cognito, Ecr} :
          ( /\ phase = "deploy"
            /\ status[s] = "absent"
            /\ \A t \in Stacks : status[t] # "failed"
            /\ Cardinality(Busy) < MaxConcurrency ) => ENABLED ApplyStart(s)
    /\ DeployCompleted =>
          /\ status = [s \in Stacks |-> "applied"]
          /\ created = [s \in Stacks |-> ResourceIds(s)]

C19_Witness ==
    /\ phase = "deploy"
    /\ status[Cognito] = "applying"
    /\ status[Ecr] = "applying"
    /\ created[Cognito] = {"FlaskAuthUserPool"}
    /\ created[Ecr] = {}

AllApplied ==
    /\ \A s \in Stacks : status[s] = "applied"
    /\ created = [s \in Stacks |-> ResourceIds(s)]

\* C20: provisioning terminates: under fair scheduling, a deploy run in which
\* no apply fails eventually has CognitoStack, EcrStack and EcsStack (and the
\* top-level stack) applied; until then the engine always has a step to take,
\* so no stack waits forever on the dependency edges.
C20_ProvisioningTerminates ==
    /\ ([](\A s \in Stacks : status[s] # "failed")) => <>AllApplied
    /\ []( ((\A s \in Stacks : status[s] # "failed") /\ ~AllApplied)
              => ENABLED NextDeploy )

C20_Witness ==
    /\ AllApplied
    /\ rolledBack = [s \in Stacks |-> 0]
    /\ images = <<>>

\* C21: the setup script is idempotent for a fixed repository and permission
\* choice.  In a run that follows a completed run: no OIDC provider and no
\* role is created; with the same answers as before the IAM state stays what
\* the preceding run left; and such a run, when no command fails for a
\* reason outside the account state, ends with status 0 and the banner.
C21_SetupIdempotent ==
    previous # Undefined =>
        /\ \A i \in DOMAIN log :
              log[i].status = 0 =>
                  log[i].cmd \notin {"aws iam create-open-id-connect-provider",
                                     "aws iam create-role"}
        /\ answers = previous[1].answers => iam = previous[1].iam
        /\ (answers = previous[1].answers /\ ~faulted /\ exitStatus # Undefined) =>
              (exitStatus = Some(0) /\ banner)

C21_Witness ==
    /\ runs = 2
    /\ previous # Undefined
    /\ answers = previous[1].answers
    /\ answers["PERMISSION_CHOICE"] = "2"
    /\ exitStatus = Some(0)
    /\ banner
    /\ iam = [provider |-> TRUE, role |-> TRUE, trust |-> "owner/repo",
              attached |-> {}, inline |-> {"GitHubActionsCDKPolicy"}]
    /\ \E i \in DOMAIN log :
          log[i].cmd = "aws iam update-assume-role-policy" /\ log[i].status = 0

====
